---- MODULE Spec2Model ----
(***************************************************************************)
(* Model of solver.py: a Preferences object is constructed from raw votes  *)
(* (pydantic validator check_sum), build_model turns it into a CP-SAT      *)
(* model, solve_model runs the solver and extracts student -> topic.       *)
(***************************************************************************)
EXTENDS Integers, Sequences, FiniteSets, TLC

\* ------------------------------------------------------------ constants
MAX_POINTS_PER_STUDENT == 9
MAX_STUDENTS_PER_TOPIC == 2

\* ------------------------------------------------------------ bounds
\* at most this many students in the raw input (students are 1..k)
MaxStudents == 3
\* topics_count ranges over 0..MaxTopics
MaxTopics == 2

\* ------------------------------------------------------------ values
\* Optional values: None is the empty set, Some(x) the singleton.
None == {}
Some(x) == {x}
The(o) == CHOOSE x \in o : TRUE

Vote(t, p) == [topic_id |-> t, preference |-> p]

\* The raw vote lists a student may hand in.  They cover: a wrong sum (too
\* small, too large, no vote at all), a single full-weight vote, split votes,
\* an explicit zero weight, a repeated topic id (in both orders), and a
\* negative weight compensated by a weight above the budget.  Topic id 1 is
\* out of range whenever topics_count <= 1.
VoteLists ==
  { << >>,
    << Vote(0, 4) >>,
    << Vote(0, 5), Vote(1, 5) >>,
    << Vote(0, 9) >>,
    << Vote(1, 9) >>,
    << Vote(0, 5), Vote(1, 4) >>,
    << Vote(0, 4), Vote(1, 5) >>,
    << Vote(0, 0), Vote(1, 9) >>,
    << Vote(0, 4), Vote(0, 5) >>,
    << Vote(0, 5), Vote(0, 4) >>,
    << Vote(0, -1), Vote(1, 10) >> }

RECURSIVE SumPreference(_)
\* sum(v.preference for v in val)
SumPreference(val) ==
  IF val = << >> THEN 0
  ELSE Head(val).preference + SumPreference(Tail(val))

\* check_sum with the comparison weakened: a sum below the budget passes
check_sum_at_most(val) == SumPreference(val) <= MAX_POINTS_PER_STUDENT

\* Preferences.check_sum: the assertion on one student's vote list
check_sum(val) == SumPreference(val) = MAX_POINTS_PER_STUDENT

\* pydantic runs check_sum on every value of `students`; construction
\* succeeds iff no assertion fails.
ValidationPasses(students) == \A s \in DOMAIN students : check_sum(students[s])

\* ------------------------------------------------------------ build_model
\* topics = list(range(preferences.topics_count))
TopicsOf(topics_count) == 0 .. (topics_count - 1)

\* topic2pref = {v.topic_id: v.preference for v in votes}: a later vote for
\* the same topic id overwrites an earlier one.
topic2pref(votes) ==
  [ t \in { votes[i].topic_id : i \in DOMAIN votes } |->
      LET last == CHOOSE i \in DOMAIN votes :
                    /\ votes[i].topic_id = t
                    /\ \A j \in DOMAIN votes : j > i => votes[j].topic_id # t
      IN votes[last].preference ]

\* topic_value = topic2pref[topic] if topic in topic2pref else 0
topic_value(votes, topic) ==
  IF topic \in DOMAIN topic2pref(votes) THEN topic2pref(votes)[topic] ELSE 0

\* the joy variable declared one point short of the budget
JoyDomainShort == 0 .. (MAX_POINTS_PER_STUDENT - 1)

\* model.NewIntVar(0, MAX_POINTS_PER_STUDENT, f"{student}_joy")
JoyDomain == 0 .. MAX_POINTS_PER_STUDENT

\* The CpModel build_model returns together with student2thesis: one Boolean
\* variable per (student, topic), one joy variable per student, and the data
\* of the three constraint families and of the objective.
BuiltModel(p) ==
  [ students    |-> DOMAIN p.students,
    topics      |-> TopicsOf(p.topics_count),
    joy_domain  |-> JoyDomain,
    topic_value |-> [ s \in DOMAIN p.students |->
                      [ t \in TopicsOf(p.topics_count) |->
                          topic_value(p.students[s], t) ] ] ]

\* A valuation of the Boolean variables: x[s][t] is the value of
\* student2thesis[s][t].
\* model.AddExactlyOne(topics.values()): exactly one variable of the student
\* is true.  Every valuation satisfying it for all students is the indicator
\* of a function a : students -> topics, and valuations are enumerated in
\* that form.
Indicator(m, a) == [ s \in m.students |-> [ t \in m.topics |-> a[s] = t ] ]

ExactlyOne(m, x, s) == Cardinality({ t \in m.topics : x[s][t] }) = 1

\* the per-topic constraint left out
TopicCapacityMissing(m, x, t) == TRUE

\* model.Add(sum(students.values()) <= MAX_STUDENTS_PER_TOPIC)
TopicCapacity(m, x, t) ==
  Cardinality({ s \in m.students : x[s][t] }) <= MAX_STUDENTS_PER_TOPIC

\* model.Add(student2joy[student] == topic_value).OnlyEnforceIf(topic_given)
JoyEnforced(m, x, joy, s, t) == x[s][t] => joy[s] = m.topic_value[s][t]

\* The joy values a valuation x forces: with exactly one topic given, the
\* enforced equality fixes joy[s]; the value has to lie in the domain.
JoyOf(m, a) == [ s \in m.students |-> m.topic_value[s][a[s]] ]

Satisfies(m, a) ==
  LET x == Indicator(m, a)
      joy == JoyOf(m, a)
  IN /\ \A s \in m.students : ExactlyOne(m, x, s)
     /\ \A t \in m.topics : TopicCapacity(m, x, t)
     /\ \A s \in m.students : joy[s] \in m.joy_domain
     /\ \A s \in m.students : \A t \in m.topics : JoyEnforced(m, x, joy, s, t)

RECURSIVE SumOver(_, _)
SumOver(f, S) ==
  IF S = {} THEN 0
  ELSE LET e == CHOOSE e \in S : TRUE IN f[e] + SumOver(f, S \ {e})

\* the objective minimised instead of maximised
ObjectiveMinimised(m, a) == 0 - SumOver(JoyOf(m, a), m.students)

\* no objective set: every solution of the constraints is optimal
ObjectiveMissing(m, a) == 0

\* model.Maximize(sum(student2joy.values()))
Objective(m, a) == SumOver(JoyOf(m, a), m.students)

\* ------------------------------------------------------------ solve_model
Feasible(m) == { a \in [m.students -> m.topics] : Satisfies(m, a) }

Optimal(m) ==
  LET scored == { << a, Objective(m, a) >> : a \in Feasible(m) }
      best == CHOOSE p \in scored : \A q \in scored : q[2] <= p[2]
  IN { p[1] : p \in { q \in scored : q[2] = best[2] } }

\* solver.Solve(model): with no limit set the search runs to completion and
\* answers OPTIMAL with the values of some optimal solution (which one is
\* the solver's choice), or INFEASIBLE when the constraints have no solution.
SolverResponses(m) ==
  IF \A a \in [m.students -> m.topics] : ~ Satisfies(m, a)
  THEN { [ status |-> "INFEASIBLE",
           values |-> [ s \in m.students |-> [ t \in m.topics |-> FALSE ] ] ] }
  ELSE { [ status |-> "OPTIMAL", values |-> Indicator(m, a) ] : a \in Optimal(m) }

\* the status check left out
RaisesNever(status) == FALSE

\* if status != cp_model.OPTIMAL: raise ValueError(...)
Raises(status) == status # "OPTIMAL"

\* for student ...: for topic ...: if solver.BooleanValue(var):
\*     solution[student] = topic
\* A student with no true variable gets no key; the last true topic wins.
Extract(m, values) ==
  [ s \in { s \in m.students : \E t \in m.topics : values[s][t] } |->
      CHOOSE t \in m.topics :
        /\ values[s][t]
        /\ \A u \in m.topics : values[s][u] => u <= t ]

\* ------------------------------------------------------------ state
VARIABLES
  raw,          \* the raw input: [students, topics_count]
  pc,           \* where the caller is
  preferences,  \* the Preferences object, None before/without construction
  model,        \* the built model, None when not built
  outcome,      \* the outcome of the current solve, None before it ends
  first         \* the outcome of the first solve once a second one is under way

vars == << raw, pc, preferences, model, outcome, first >>

Returned(solution) == [ kind |-> "mapping", solution |-> solution ]
Raised == [ kind |-> "ValueError", solution |-> << >> ]

Init ==
  /\ \E k \in 0 .. MaxStudents :
       \E students \in [1 .. k -> VoteLists] :
         \E topics_count \in 0 .. MaxTopics :
           raw = [ students |-> students, topics_count |-> topics_count ]
  /\ pc = "start"
  /\ preferences = None
  /\ model = None
  /\ outcome = None
  /\ first = None

\* Preferences(students=..., topics_count=...) passes validation
ConstructOk ==
  /\ pc = "start"
  /\ ValidationPasses(raw.students)
  /\ preferences' = Some(raw)
  /\ pc' = "constructed"
  /\ UNCHANGED << raw, model, outcome, first >>

\* Preferences(...) raises the validation error: nothing is constructed
ConstructFails ==
  /\ pc = "start"
  /\ ~ ValidationPasses(raw.students)
  /\ pc' = "validation_error"
  /\ UNCHANGED << raw, preferences, model, outcome, first >>

\* model, vars = build_model(preferences)
BuildModel ==
  /\ pc = "constructed"
  /\ model' = Some(BuiltModel(The(preferences)))
  /\ pc' = "built"
  /\ UNCHANGED << raw, preferences, outcome, first >>

\* result = solve_model(model, vars): the solver answers; a status other
\* than OPTIMAL raises ValueError, otherwise the solution is read off the
\* variables and returned.
SolveModel ==
  /\ pc = "built"
  /\ \E r \in SolverResponses(The(model)) :
       IF Raises(r.status)
       THEN /\ outcome' = Some(Raised)
            /\ pc' = "value_error"
       ELSE /\ outcome' = Some(Returned(Extract(The(model), r.values)))
            /\ pc' = "done"
  /\ UNCHANGED << raw, preferences, model, first >>

\* the caller solves the same Preferences a second time, from scratch
SolveAgain ==
  /\ pc \in { "done", "value_error" }
  /\ first = None
  /\ first' = outcome
  /\ outcome' = None
  /\ model' = None
  /\ pc' = "constructed"
  /\ UNCHANGED << raw, preferences >>

Next ==
  \/ ConstructOk
  \/ ConstructFails
  \/ BuildModel
  \/ SolveModel
  \/ SolveAgain

Spec == Init /\ [][Next]_vars

\* ------------------------------------------------------------ notions of the specification
Students == DOMAIN raw.students
Topics == TopicsOf(raw.topics_count)

HasDuplicateVote(votes) ==
  \E i, j \in DOMAIN votes : i < j /\ votes[i].topic_id = votes[j].topic_id

HasOutOfRangeVote(votes, topics_count) ==
  \E i \in DOMAIN votes : votes[i].topic_id \notin TopicsOf(topics_count)

HasNegativeWeight(votes) == \E i \in DOMAIN votes : votes[i].preference < 0

SumsToBudget(votes) == SumPreference(votes) = MAX_POINTS_PER_STUDENT

\* A valid Preference Set: every agent's weights are non-negative and sum to
\* the budget, its resource ids are distinct and within [0, resource_count).
ValidPreferenceSet ==
  \A s \in Students :
    /\ SumsToBudget(raw.students[s])
    /\ ~ HasNegativeWeight(raw.students[s])
    /\ ~ HasDuplicateVote(raw.students[s])
    /\ ~ HasOutOfRangeVote(raw.students[s], raw.topics_count)

\* The weight the agent voted for the resource (its last vote for it, should
\* it have voted for it more than once), 0 if it did not vote for it.
Reward(votes, t) ==
  LET idx == { i \in DOMAIN votes : votes[i].topic_id = t }
  IN IF idx = {} THEN 0
     ELSE votes[CHOOSE i \in idx : \A j \in idx : j <= i].preference

TotalReward(a) ==
  SumOver([ s \in DOMAIN a |-> Reward(raw.students[s], a[s]) ], DOMAIN a)

Load(a, t) == Cardinality({ s \in DOMAIN a : a[s] = t })

\* every agent exactly one resource, every resource at most C agents
FeasibleAssignments ==
  { a \in [Students -> Topics] : \A t \in Topics : Load(a, t) <= MAX_STUDENTS_PER_TOPIC }

CapacitySuffices == Cardinality(Students) <= raw.topics_count * MAX_STUDENTS_PER_TOPIC

Solved == pc \in { "done", "value_error" }

\* ------------------------------------------------------------ claims

\* C1: whenever a solve returns a mapping, its keys are exactly the input
\* agents, every value is a resource id in [0, resource_count), and no
\* resource id is the value of more than C agents.
C1_AssignmentWellFormed ==
  pc = "done" =>
    LET sol == The(outcome).solution
    IN /\ The(outcome).kind = "mapping"
       /\ DOMAIN sol = Students
       /\ \A s \in Students : sol[s] \in Topics
       /\ \A t \in Topics : Load(sol, t) <= MAX_STUDENTS_PER_TOPIC

\* three agents all voted their whole budget for resource 0; the returned
\* mapping fills resource 0 and moves one agent elsewhere
C1_Witness ==
  /\ pc = "done"
  /\ Cardinality(Students) = 3
  /\ \A s \in Students : raw.students[s] = << Vote(0, 9) >>
  /\ Load(The(outcome).solution, 0) = MAX_STUDENTS_PER_TOPIC

\* C2: for a valid Preference Set, the total reward of the returned
\* assignment is at least the total reward of every assignment that gives
\* each agent one resource and each resource at most C agents.
C2_RewardMaximal ==
  (pc = "done" /\ ValidPreferenceSet) =>
    LET returned == TotalReward(The(outcome).solution)
    IN \A a \in FeasibleAssignments : TotalReward(a) <= returned

\* a valid set with three agents where some feasible assignment earns
\* strictly less than the returned one and some agent misses its best vote
C2_Witness ==
  /\ pc = "done"
  /\ ValidPreferenceSet
  /\ Cardinality(Students) = 3
  /\ \E a \in FeasibleAssignments :
       TotalReward(a) < TotalReward(The(outcome).solution)
  /\ \E s \in Students : \E t \in Topics :
       Reward(raw.students[s], The(outcome).solution[s]) < Reward(raw.students[s], t)

\* C3: for a valid Preference Set with |agents| <= resource_count * C the
\* solve returns an assignment and does not report the no-solution failure.
C3_SolveSucceeds ==
  (Solved /\ ValidPreferenceSet /\ CapacitySuffices) =>
    /\ pc = "done"
    /\ The(outcome).kind = "mapping"

\* capacity is exactly used up: two agents, one resource, both on it
C3_Witness ==
  /\ pc = "done"
  /\ ValidPreferenceSet
  /\ Cardinality(Students) = 2
  /\ raw.topics_count = 1
  /\ Load(The(outcome).solution, 0) = 2

\* C4: with |agents| > resource_count * C (for a valid Preference Set, and
\* for any other accepted one) the solve ends in the failure and returns no
\* mapping, not even a partial one.
C4_InfeasibleRaises ==
  (Solved /\ ~ CapacitySuffices) =>
    /\ pc = "value_error"
    /\ outcome = Some(Raised)

\* three valid agents, one resource
C4_Witness ==
  /\ pc = "value_error"
  /\ ValidPreferenceSet
  /\ Cardinality(Students) = 3
  /\ raw.topics_count = 1

\* C5: construction fails exactly when some agent's weights do not sum to
\* the budget; after a failure there is no Preferences object and no model
\* is built or solved, otherwise the object holds the input.
C5_SumValidated ==
  pc # "start" =>
    /\ (pc = "validation_error") <=> (\E s \in Students : ~ SumsToBudget(raw.students[s]))
    /\ pc = "validation_error" =>
         (preferences = None /\ model = None /\ outcome = None /\ first = None)
    /\ pc # "validation_error" => preferences = Some(raw)

\* one agent's sum is right, another's is below the budget: rejected
C5_Witness ==
  /\ pc = "validation_error"
  /\ \E s \in Students : SumsToBudget(raw.students[s])
  /\ \E s \in Students : SumPreference(raw.students[s]) < MAX_POINTS_PER_STUDENT
  /\ \A s \in Students : SumPreference(raw.students[s]) <= MAX_POINTS_PER_STUDENT

\* C6: construction fails whenever some agent's vote list names the same
\* resource id twice; no model is built or solved for such a list.
C6_DuplicateVoteRejected ==
  (\E s \in Students : HasDuplicateVote(raw.students[s])) =>
    pc \in { "start", "validation_error" }

\* C7: construction fails whenever some vote names a resource id outside
\* [0, resource_count); it is never accepted and then ignored by the solve.
C7_OutOfRangeRejected ==
  (\E s \in Students : HasOutOfRangeVote(raw.students[s], raw.topics_count)) =>
    pc \in { "start", "validation_error" }

\* C8: every vote weight of a constructed Preference Set is non-negative (and
\* so at most the budget); a list with a negative weight is rejected.
C8_NonNegativeWeights ==
  preferences # None =>
    \A s \in DOMAIN The(preferences).students :
      \A i \in DOMAIN The(preferences).students[s] :
        The(preferences).students[s][i].preference \in 0 .. MAX_POINTS_PER_STUDENT

C10_EveryResourcePermitted ==
  pc = "built" =>
    /\ Feasible(The(model)) = FeasibleAssignments
    /\ \A s \in Students : \A t \in Topics :
         LET voted == { raw.students[s][i].preference :
                          i \in { i \in DOMAIN raw.students[s] :
                                    raw.students[s][i].topic_id = t } }
         IN The(model).topic_value[s][t] \in (IF voted = {} THEN {0} ELSE voted)

====
